---- MODULE Spec2Model ----
(***************************************************************************)
(* Gemini Web Navigator: the step loop (agent.py, run_navigator), the      *)
(* decision engine (get_next_action, _parse_computer_use_response), the    *)
(* action executor (execute_action) and the session stream adapter         *)
(* (main.py: run_agent, its stream() generator, stop_session).             *)
(*                                                                         *)
(* Encodings.  An Optional[int] is a sequence: <<>> is None, <<v>> is v.   *)
(* A text is the set of the keywords it contains ({} is the empty string,  *)
(* {"hello"} a text with none of the keywords).  A session id is a         *)
(* number: 1..NumClientIds are ids a caller supplies, Uuid(r) is the id    *)
(* uuid4 generates for request r.  An asyncio.Event is identified by the   *)
(* request that created it; 0 in the registry means "no entry".            *)
(***************************************************************************)
EXTENDS Integers, Sequences, FiniteSets, TLC

\* ---------------------------------------------------------------- bounds
NumRuns == 2
NumClientIds == 1
MaxParts == 2
MaxConcSteps == 1

\* ------------------------------------------------------------- constants
MAX_STEPS == 25

Runs == 1..NumRuns
ClientIds == 1..NumClientIds
Uuid(r) == NumClientIds + r
AllIds == 1..(NumClientIds + NumRuns)

\* ------------------------------------------------------------ Action model
ActionTypes ==
  {"click", "type", "scroll", "navigate", "wait", "done", "fail",
   "screenshot", "key", "move_mouse", "drag"}

\* Action(type=t) with every optional field left at its default None.
Action(t) ==
  [type |-> t, x |-> <<>>, y |-> <<>>, direction |-> "None", amount |-> <<>>,
   start_coordinate |-> <<>>, coordinate |-> <<>>]

NoAction == Action("none")

\* ------------------------------------------------- model responses (input)
CompletionWordsOnStop == {"completed", "accomplished", "done", "finished", "found"}
FailureWords == {"cannot", "unable", "blocked", "captcha", "login required"}
CompletionWords == {"completed", "accomplished", "done", "finished"}

KnownTools ==
  {"computer_use_click", "computer_use_type", "computer_use_scroll",
   "computer_use_key", "computer_use_move_mouse", "computer_use_screenshot",
   "computer_use_navigate", "computer_use_drag"}

\* A numeric "amount" argument: given = FALSE is a missing key; numeric = FALSE
\* is a value int() rejects.
AmountArg(given, numeric, v) == [given |-> given, numeric |-> numeric, v |-> v]
NoAmount == AmountArg(FALSE, TRUE, 0)

\* One content part: text (keywords contained) and/or a function call
\* (name = "" when the part carries none).  coordinate is the click/scroll/
\* move coordinate or the drag endCoordinate, start the drag startCoordinate;
\* <<>> stands for a missing (or empty) list.
Part(text, name, coordinate, start, direction, amount) ==
  [text |-> text, name |-> name, coordinate |-> coordinate, start |-> start,
   direction |-> direction, amount |-> amount]

TextPart(text) == Part(text, "", <<>>, <<>>, "absent", NoAmount)
ToolPart(name, coordinate, start, direction, amount) ==
  Part({}, name, coordinate, start, direction, amount)
PlainTool(name) == ToolPart(name, <<>>, <<>>, "absent", NoAmount)

Texts == { {"hello"}, {"captcha"}, {"done"}, {"found"} }

ToolParts ==
  { PlainTool("computer_use_hover"),
    PlainTool("computer_use_type"),
    PlainTool("computer_use_key"),
    PlainTool("computer_use_move_mouse"),
    PlainTool("computer_use_screenshot"),
    PlainTool("computer_use_navigate"),
    ToolPart("computer_use_scroll", <<>>, <<>>, "null", AmountArg(TRUE, TRUE, 3)),
    ToolPart("computer_use_click", <<3, 4>>, <<>>, "absent", NoAmount),
    ToolPart("computer_use_click", <<5>>, <<>>, "absent", NoAmount),
    ToolPart("computer_use_drag", <<7>>, <<1, 2>>, "absent", NoAmount),
    ToolPart("computer_use_scroll", <<>>, <<>>, "down", AmountArg(TRUE, TRUE, 3)),
    ToolPart("computer_use_scroll", <<3, 4>>, <<>>, "up", AmountArg(TRUE, TRUE, 1)),
    ToolPart("computer_use_scroll", <<3, 4>>, <<>>, "up", NoAmount) }

Parts == {TextPart(t) : t \in Texts} \cup ToolParts

PartSeqs == UNION {[1..n -> Parts] : n \in 0..MaxParts}

\* What client.models.generate_content can produce: an exception, a response
\* with no candidate, a candidate whose content has no parts list, or a
\* candidate with a finish reason and a list of parts.
Response(api, candidates, hasParts, finish, parts) ==
  [api |-> api, candidates |-> candidates, hasParts |-> hasParts,
   finish |-> finish, parts |-> parts]

ApiError == Response("raise", 0, FALSE, "NONE", <<>>)
NoCandidates == Response("ok", 0, FALSE, "NONE", <<>>)
NoPartsList == Response("ok", 1, FALSE, "STOP", <<>>)

FinishReasons == {"STOP", "MAX_TOKENS", "SAFETY"}

Responses ==
  {ApiError, NoCandidates, NoPartsList}
    \cup {Response("ok", 1, TRUE, f, ps) : f \in FinishReasons, ps \in PartSeqs}

\* ------------------------------------------- _parse_computer_use_response
Raised == [raised |-> TRUE, action |-> NoAction]
Returned(a) == [raised |-> FALSE, action |-> a]

\* `any(w in text_lower for w in words)` on a non-empty text.
HasAny(text, words) == text \cap words # {}

\* The first index a `for part in content.parts` loop stops at, given the set
\* of indices whose part satisfies the loop's condition; 0 when there is none.
FirstIndex(hits) ==
  IF hits = {} THEN 0 ELSE CHOOSE i \in hits : \A j \in hits : i <= j

\* "found" missing from the completion words of the finish-reason check.
StopsWithCompletionNoFound(resp) ==
  /\ resp.finish \in {"STOP", "MAX_TOKENS"}
  /\ \E i \in 1..Len(resp.parts) : HasAny(resp.parts[i].text, CompletionWords)

\* Lines 131-138: a STOP / MAX_TOKENS finish with completion language.
StopsWithCompletion(resp) ==
  /\ resp.finish \in {"STOP", "MAX_TOKENS"}
  /\ \E i \in 1..Len(resp.parts) : HasAny(resp.parts[i].text, CompletionWordsOnStop)

HasCall(part) == part.name # ""

\* `int(coord[i]) if coord else dflt` for i = 0 and 1: raises IndexError on a
\* one-element list.
CoordRaises(coord) == Len(coord) = 1
CoordX(coord, dflt) == IF coord = <<>> THEN dflt ELSE coord[1]
CoordY(coord, dflt) == IF coord = <<>> THEN dflt ELSE coord[2]

\* args.get("direction", "down")
DirectionOf(part) ==
  CASE part.direction = "absent" -> "down"
    [] part.direction = "null" -> "None"
    [] OTHER -> part.direction

\* int(args.get("amount", 3)) * 100
ScaledAmount(amt) == (IF amt.given THEN amt.v ELSE 3) * 100

\* An unknown tool name taken for a failure.
UnknownToolFails(part) == Returned(Action("fail"))

\* Lines 204-206: an unknown function call is treated as wait.
UnknownTool(part) == Returned(Action("wait"))

\* Lines 147-206: the dispatch on the tool name of one function-call part.
DispatchTool(part) ==
  CASE part.name = "computer_use_click" ->
         IF CoordRaises(part.coordinate) THEN Raised
         ELSE Returned([Action("click") EXCEPT
                          !.x = <<CoordX(part.coordinate, 0)>>,
                          !.y = <<CoordY(part.coordinate, 0)>>])
    [] part.name = "computer_use_type" -> Returned(Action("type"))
    [] part.name = "computer_use_scroll" ->
         IF CoordRaises(part.coordinate) \/ ~part.amount.numeric THEN Raised
         ELSE Returned([Action("scroll") EXCEPT
                          !.x = <<CoordX(part.coordinate, 640)>>,
                          !.y = <<CoordY(part.coordinate, 400)>>,
                          !.direction = DirectionOf(part),
                          !.amount = <<ScaledAmount(part.amount)>>])
    [] part.name = "computer_use_key" -> Returned(Action("key"))
    [] part.name = "computer_use_move_mouse" ->
         IF CoordRaises(part.coordinate) THEN Raised
         ELSE Returned([Action("move_mouse") EXCEPT
                          !.x = <<CoordX(part.coordinate, 640)>>,
                          !.y = <<CoordY(part.coordinate, 400)>>])
    [] part.name = "computer_use_screenshot" -> Returned(Action("screenshot"))
    [] part.name = "computer_use_navigate" -> Returned(Action("navigate"))
    [] part.name = "computer_use_drag" ->
         Returned([Action("drag") EXCEPT
                     !.start_coordinate =
                        IF part.start = <<>> THEN <<0, 0>> ELSE part.start,
                     !.coordinate =
                        IF part.coordinate = <<>> THEN <<0, 0>> ELSE part.coordinate])
    [] OTHER -> UnknownTool(part)

\* Lines 208-218: no function call; the first text part that decides.
DecidesByText(part) ==
  HasAny(part.text, FailureWords) \/ HasAny(part.text, CompletionWords)

\* "captcha" missing from the failure words.
TextFallbackNoCaptcha(parts) ==
  LET Decides(part) ==
        \/ HasAny(part.text, FailureWords \ {"captcha"})
        \/ HasAny(part.text, CompletionWords)
      i == FirstIndex({k \in 1..Len(parts) : Decides(parts[k])})
  IN  IF i = 0 THEN Action("wait")
      ELSE IF HasAny(parts[i].text, FailureWords \ {"captcha"}) THEN Action("fail")
      ELSE Action("done")

TextFallback(parts) ==
  LET i == FirstIndex({k \in 1..Len(parts) : DecidesByText(parts[k])})
  IN  IF i = 0 THEN Action("wait")
      ELSE IF HasAny(parts[i].text, FailureWords) THEN Action("fail")
      ELSE Action("done")

\* _parse_computer_use_response(response): the Action, or an exception.
parse_computer_use_response(resp) ==
  IF resp.candidates = 0 \/ ~resp.hasParts THEN Raised
  ELSE IF StopsWithCompletion(resp) THEN Returned(Action("done"))
  ELSE LET i == FirstIndex({k \in 1..Len(resp.parts) : HasCall(resp.parts[k])})
       IN  IF i # 0 THEN DispatchTool(resp.parts[i])
           ELSE Returned(TextFallback(resp.parts))

\* ------------------------------------------------------- get_next_action
\* The goal text sent with every user turn.
UserTurnAlwaysGoal(conv) == [role |-> "user", goal |-> TRUE]

UserTurn(conv) == [role |-> "user", goal |-> conv = <<>>]
ModelTurn == [role |-> "model", goal |-> FALSE]

\* The user turn built on a copy of the transcript: a failed call hands the
\* transcript back as it was.
get_next_action_on_copy(conv, resp) ==
  LET sent == Append(conv, UserTurn(conv))
  IN  IF resp.api = "raise"
      THEN [raised |-> FALSE, action |-> Action("fail"), conversation |-> conv]
      ELSE IF resp.candidates = 0
      THEN [raised |-> TRUE, action |-> NoAction, conversation |-> sent]
      ELSE LET p == parse_computer_use_response(resp)
           IN  [raised |-> p.raised, action |-> p.action,
                conversation |-> Append(sent, ModelTurn)]

\* [raised, action, conversation] of get_next_action on transcript conv when
\* the model call produces resp.
get_next_action(conv, resp) ==
  LET sent == Append(conv, UserTurn(conv))
  IN  IF resp.api = "raise"
      THEN [raised |-> FALSE, action |-> Action("fail"), conversation |-> sent]
      ELSE IF resp.candidates = 0
      THEN [raised |-> TRUE, action |-> NoAction, conversation |-> sent]
      ELSE LET p == parse_computer_use_response(resp)
           IN  [raised |-> p.raised, action |-> p.action,
                conversation |-> Append(sent, ModelTurn)]

\* What the step loop's observers need of a model answer: how the call
\* ended, and which situation the answer reports.
CallOutcome(rsp) ==
  CASE rsp.api = "raise" -> "exception"
    [] rsp.candidates = 0 -> "no_candidates"
    [] ~rsp.hasParts -> "no_parts"
    [] \E i \in 1..Len(rsp.parts) : HasCall(rsp.parts[i]) -> "tool_call"
    [] OTHER -> "text_only"

\* The first requested tool is none of the eight computer_use_* names.
RequestsUnknownTool(rsp) ==
  /\ CallOutcome(rsp) = "tool_call"
  /\ rsp.parts[FirstIndex({k \in 1..Len(rsp.parts) : HasCall(rsp.parts[k])})].name \notin KnownTools

\* Lines 147-206: the Action kind each tool name stands for.
ToolKind(name) ==
  CASE name = "computer_use_click" -> "click"
    [] name = "computer_use_type" -> "type"
    [] name = "computer_use_scroll" -> "scroll"
    [] name = "computer_use_key" -> "key"
    [] name = "computer_use_move_mouse" -> "move_mouse"
    [] name = "computer_use_screenshot" -> "screenshot"
    [] name = "computer_use_navigate" -> "navigate"
    [] name = "computer_use_drag" -> "drag"
    [] OTHER -> "wait"

\* The kind of the first requested tool, "none" when no tool is requested.
RequestedKind(rsp) ==
  IF CallOutcome(rsp) # "tool_call" THEN "none"
  ELSE ToolKind(rsp.parts[FirstIndex({k \in 1..Len(rsp.parts) : HasCall(rsp.parts[k])})].name)

\* Text with failure language and no tool request.
ReportsBlockage(rsp) ==
  /\ CallOutcome(rsp) = "text_only"
  /\ \E i \in 1..Len(rsp.parts) : HasAny(rsp.parts[i].text, FailureWords)

\* Some text carries completion language of one of the two word lists.
HasCompletionText(rsp) ==
  /\ CallOutcome(rsp) \in {"tool_call", "text_only"}
  /\ \E i \in 1..Len(rsp.parts) : HasAny(rsp.parts[i].text, CompletionWordsOnStop)

\* A text part with completion language comes before every text part with
\* failure language.
CompletionTextFirst(rsp) ==
  /\ CallOutcome(rsp) \in {"tool_call", "text_only"}
  /\ LET i == FirstIndex({k \in 1..Len(rsp.parts) : DecidesByText(rsp.parts[k])})
     IN  i # 0 /\ ~HasAny(rsp.parts[i].text, FailureWords)

Summary(rsp) ==
  [outcome |-> CallOutcome(rsp),
   unknownTool |-> RequestsUnknownTool(rsp),
   toolKind |-> RequestedKind(rsp),
   blockage |-> ReportsBlockage(rsp),
   stopFinish |-> rsp.finish \in {"STOP", "MAX_TOKENS"},
   completionText |-> HasCompletionText(rsp),
   completionFirst |-> CompletionTextFirst(rsp)]

NoResponse ==
  [outcome |-> "none", unknownTool |-> FALSE, toolKind |-> "none",
   blockage |-> FALSE,
   stopFinish |-> FALSE, completionText |-> FALSE, completionFirst |-> FALSE]

\* Everything get_next_action and the observers take from a response: two
\* responses with the same Outcome are the same input to the step loop.
Outcome(rsp) ==
  <<rsp.api, rsp.candidates, parse_computer_use_response(rsp), Summary(rsp)>>

\* One response of Responses for each Outcome.
Answers ==
  { CHOOSE rsp \in Responses : Outcome(rsp) = o :
      o \in {Outcome(rsp) : rsp \in Responses} }

\* -------------------------------------------------------- execute_action
\* `value or dflt` on an Optional[int] (None and 0 are both falsy).
OrElse(opt, dflt) == IF opt = <<>> \/ opt[1] = 0 THEN dflt ELSE opt[1]

\* The sign chosen the wrong way round.
ScrollDeltaFlipped(a) ==
  IF a.direction = "up" THEN a.amount ELSE <<-(OrElse(a.amount, 300))>>

\* Line 258: the vertical wheel delta, None (<<>>) when amount is None and
\* the direction is "down".
ScrollDelta(a) ==
  IF a.direction = "down" THEN a.amount ELSE <<-(OrElse(a.amount, 300))>>

\* The browser primitives a kind awaits that can raise (the settle wait of
\* _wait_for_navigation and asyncio.sleep swallow or raise nothing).
PrimitiveCount(a) ==
  CASE a.type \in {"click", "type", "key", "navigate", "move_mouse"} -> 1
    [] a.type = "scroll" -> 2
    [] a.type = "drag" -> 4
    [] OTHER -> 0

\* `seq or [0, 0]`, then seq[0], seq[1]: IndexError on a one-element list.
PairRaises(seq) == Len(seq) = 1

\* (success, wheel call) of execute_action when primitive number raiseAt
\* raises (0: none does).  wheel is <<>> when page.mouse.wheel is not called,
\* else << [dx, dy] >> with dy an Optional[int].
execute_action(a, raiseAt) ==
  CASE a.type = "scroll" ->
         [success |-> raiseAt = 0 /\ ScrollDelta(a) # <<>>,
          wheel |-> IF raiseAt = 1 THEN <<>>
                    ELSE <<[dx |-> 0, dy |-> ScrollDelta(a)]>>]
    [] a.type = "drag" ->
         [success |-> raiseAt = 0 /\ ~PairRaises(a.start_coordinate)
                        /\ ~PairRaises(a.coordinate),
          wheel |-> <<>>]
    [] a.type \in {"click", "type", "key", "navigate", "move_mouse"} ->
         [success |-> raiseAt = 0, wheel |-> <<>>]
    [] a.type \in {"screenshot", "wait", "done"} ->
         [success |-> TRUE, wheel |-> <<>>]
    [] a.type = "fail" -> [success |-> FALSE, wheel |-> <<>>]
    [] OTHER -> [success |-> FALSE, wheel |-> <<>>]

\* ------------------------------------------------------------------ state
VARIABLES
  apiKey,        \* GEMINI_API_KEY is set
  registry,      \* _stop_events: session id -> the request whose Event it holds
  pc,            \* where each request's handler / stream generator is
  sid,           \* session_id of the request
  stopSet,       \* stop_event.is_set() of the request's Event
  browser,       \* "none", "open", "closed" (browser.close() ran)
  step,          \* the loop variable of run_navigator
  conversation,  \* the transcript
  resp,          \* Summary of the model's answer in this iteration
  action,        \* the Action decided in this iteration
  success,       \* execute_action's verdict in this iteration
  wheel,         \* the page.mouse.wheel call of this iteration
  results,       \* step indices of the StepResults run_navigator yielded
  events,        \* the SSE events the stream yielded
  reply,         \* the status code of the last answer of POST /stop
  stopAt         \* where the run was when its Event was first set

vars ==
  <<apiKey, registry, pc, sid, stopSet, browser, step, conversation, resp,
    action, success, wheel, results, events, reply, stopAt>>

\* range(0, MAX_STEPS) in place of range(1, MAX_STEPS + 1).
StepRangeFromZero == 0..(MAX_STEPS - 1)

\* range(1, MAX_STEPS + 2): the ceiling off by one.
StepRangeOneMore == 1..(MAX_STEPS + 1)

\* range(1, MAX_STEPS + 1)
StepRange == 1..MAX_STEPS
LoopStart == (CHOOSE n \in StepRange : \A m \in StepRange : n <= m) - 1
RangeExhausted(s) == s + 1 \notin StepRange

Event(type, n) == [type |-> type, step |-> n]
NotStopped == [phase |-> "unset", n |-> 0, terminal |-> FALSE]
NoReply == 0

Init ==
  /\ apiKey \in BOOLEAN
  /\ registry = [s \in AllIds |-> 0]
  /\ pc = [r \in Runs |-> "idle"]
  /\ sid = [r \in Runs |-> 0]
  /\ stopSet = [r \in Runs |-> FALSE]
  /\ browser = [r \in Runs |-> "none"]
  /\ step = [r \in Runs |-> LoopStart]
  /\ conversation = [r \in Runs |-> <<>>]
  /\ resp = [r \in Runs |-> NoResponse]
  /\ action = [r \in Runs |-> NoAction]
  /\ success = [r \in Runs |-> FALSE]
  /\ wheel = [r \in Runs |-> <<>>]
  /\ results = [r \in Runs |-> <<>>]
  /\ events = [r \in Runs |-> <<>>]
  /\ reply = NoReply
  /\ stopAt = [r \in Runs |-> NotStopped]

\* ---------------------------------------------------------------- helpers
Emit(r, e) == events' = [events EXCEPT ![r] = Append(@, e)]

\* The pop left out: the registration stays.
PopNothing(reg, s) == reg

\* The `finally` of stream(): _stop_events.pop(session_id, None)
Pop(reg, s) == [reg EXCEPT ![s] = 0]

\* The iteration's locals, as they are before the iteration assigns them.
ClearLocals(r) ==
  /\ resp' = [resp EXCEPT ![r] = NoResponse]
  /\ action' = [action EXCEPT ![r] = NoAction]
  /\ success' = [success EXCEPT ![r] = FALSE]
  /\ wheel' = [wheel EXCEPT ![r] = <<>>]

KeepLocals == UNCHANGED <<resp, action, success, wheel>>

\* An exception leaves run_navigator (browser.close() is skipped) and is
\* caught by stream()'s `except Exception`, which yields an error event.
RaiseToStream(r) ==
  /\ pc' = [pc EXCEPT ![r] = "ev_error"]
  /\ Emit(r, Event("error", 0))

\* ----------------------------------------------------- POST /run: run_agent
RunAgent(r, req) ==
  /\ pc[r] = "idle"
  /\ IF ~apiKey
     THEN /\ pc' = [pc EXCEPT ![r] = "rejected"]
          /\ UNCHANGED <<registry, sid>>
     ELSE LET id == IF req = 0 THEN Uuid(r) ELSE req
          IN  /\ sid' = [sid EXCEPT ![r] = id]
              /\ registry' = [registry EXCEPT ![id] = r]
              /\ pc' = [pc EXCEPT ![r] = "created"]
  /\ UNCHANGED <<apiKey, stopSet, browser, step, conversation, resp, action,
                 success, wheel, results, events, reply, stopAt>>

\* The response starts iterating stream(): the session event is yielded.
StreamStart(r) ==
  /\ pc[r] = "created"
  /\ pc' = [pc EXCEPT ![r] = "session"]
  /\ Emit(r, Event("session", 0))
  /\ UNCHANGED <<apiKey, registry, sid, stopSet, browser, step, conversation,
                 resp, action, success, wheel, results, reply, stopAt>>

\* run_navigator up to its loop: launch the browser and load start_url.
NavLaunch(r, ok) ==
  /\ pc[r] = "session"
  /\ IF ok
     THEN /\ pc' = [pc EXCEPT ![r] = "head"]
          /\ browser' = [browser EXCEPT ![r] = "open"]
          /\ UNCHANGED events
     ELSE /\ RaiseToStream(r)
          /\ UNCHANGED browser
  /\ UNCHANGED <<apiKey, registry, sid, stopSet, step, conversation, resp,
                 action, success, wheel, results, reply, stopAt>>

\* The generator of stream() is over: its `finally` runs.
StreamOver(r, how) ==
  /\ pc' = [pc EXCEPT ![r] = how]
  /\ registry' = Pop(registry, sid[r])

\* run_navigator called without the stop_event: nothing to check.
StopNotChecked(r) == FALSE

\* Line 335: `stop_event is not None and stop_event.is_set()`
StopRequested(r) == stopSet[r]

\* The head of the loop: the next value of range(), then the stop check.
\* Leaving the loop closes the browser and ends both generators.
NavLoopHead(r) ==
  /\ pc[r] = "head"
  /\ ClearLocals(r)
  /\ IF RangeExhausted(step[r])
     THEN /\ browser' = [browser EXCEPT ![r] = "closed"]
          /\ StreamOver(r, "finished")
          /\ UNCHANGED step
     ELSE /\ step' = [step EXCEPT ![r] = @ + 1]
          /\ IF StopRequested(r)
             THEN /\ browser' = [browser EXCEPT ![r] = "closed"]
                  /\ StreamOver(r, "finished")
             ELSE /\ pc' = [pc EXCEPT ![r] = "shot"]
                  /\ UNCHANGED <<browser, registry>>
  /\ UNCHANGED <<apiKey, sid, stopSet, conversation, results, events, reply,
                 stopAt>>

\* take_screenshot(page)
TakeScreenshot(r, ok) ==
  /\ pc[r] = "shot"
  /\ IF ok
     THEN /\ pc' = [pc EXCEPT ![r] = "decide"]
          /\ UNCHANGED events
     ELSE RaiseToStream(r)
  /\ KeepLocals
  /\ UNCHANGED <<apiKey, registry, sid, stopSet, browser, step, conversation,
                 results, reply, stopAt>>

\* get_next_action(...) with the model call producing rsp.
GetNextAction(r, rsp) ==
  /\ pc[r] = "decide"
  /\ LET got == get_next_action(conversation[r], rsp)
     IN  /\ conversation' = [conversation EXCEPT ![r] = got.conversation]
         /\ IF got.raised
            THEN /\ RaiseToStream(r)
                 /\ UNCHANGED action
            ELSE /\ pc' = [pc EXCEPT ![r] = "exec"]
                 /\ action' = [action EXCEPT ![r] = got.action]
                 /\ UNCHANGED events
         /\ resp' = [resp EXCEPT ![r] = Summary(rsp)]
  /\ UNCHANGED <<apiKey, registry, sid, stopSet, browser, step, success,
                 wheel, results, reply, stopAt>>

\* execute_action(page, action), the yield of the StepResult, and stream()'s
\* relay of it up to its next yield.
ExecuteAction(r, raiseAt) ==
  /\ pc[r] = "exec"
  /\ raiseAt \in 0..PrimitiveCount(action[r])
  /\ LET done == execute_action(action[r], raiseAt)
     IN  /\ success' = [success EXCEPT ![r] = done.success]
         /\ wheel' = [wheel EXCEPT ![r] = done.wheel]
  /\ results' = [results EXCEPT ![r] = Append(@, step[r])]
  /\ IF stopSet[r]
     THEN /\ pc' = [pc EXCEPT ![r] = "ev_stopped"]
          /\ Emit(r, Event("stopped", 0))
     ELSE /\ pc' = [pc EXCEPT ![r] = "ev_step"]
          /\ Emit(r, Event("step", step[r]))
  /\ UNCHANGED <<apiKey, registry, sid, stopSet, browser, step, conversation,
                 resp, action, reply, stopAt>>

\* Line 370 of run_navigator and lines 103-108 of stream().
IsTerminal(a) == a.type \in {"done", "fail"}

\* The test on the kind inverted: `in` for `not in`.
NeedsBackoffOnWait(a, ok) == ~ok /\ a.type = "wait"

\* Line 373: the backoff sleep after a failed execution.
NeedsBackoff(a, ok) == ~ok /\ a.type # "wait"

\* The `break` after the done event (line 105) missing: the loop goes on.
StreamAfterStepDoneContinues(r) ==
  /\ pc[r] = "ev_step"
  /\ IF action[r].type = "done"
     THEN /\ pc' = [pc EXCEPT ![r] = "head"]
          /\ Emit(r, Event("done", 0))
     ELSE IF action[r].type = "fail"
     THEN /\ pc' = [pc EXCEPT ![r] = "ev_error"]
          /\ Emit(r, Event("error", 0))
     ELSE /\ pc' = [pc EXCEPT ![r] =
                      IF NeedsBackoff(action[r], success[r]) THEN "backoff"
                      ELSE "head"]
          /\ UNCHANGED events
  /\ KeepLocals
  /\ UNCHANGED <<apiKey, registry, sid, stopSet, browser, step, conversation,
                 results, reply, stopAt>>

\* The `break` after the error event of a fail (line 108) missing: the
\* step loop is resumed and sleeps its backoff.
StreamAfterStepFailContinues(r) ==
  /\ pc[r] = "ev_step"
  /\ IF action[r].type = "done"
     THEN /\ pc' = [pc EXCEPT ![r] = "ev_done"]
          /\ Emit(r, Event("done", 0))
     ELSE IF action[r].type = "fail"
     THEN /\ pc' = [pc EXCEPT ![r] = "backoff"]
          /\ Emit(r, Event("error", 0))
     ELSE /\ pc' = [pc EXCEPT ![r] =
                      IF NeedsBackoff(action[r], success[r]) THEN "backoff"
                      ELSE "head"]
          /\ UNCHANGED events
  /\ KeepLocals
  /\ UNCHANGED <<apiKey, registry, sid, stopSet, browser, step, conversation,
                 results, reply, stopAt>>

\* stream() after its step event: the done / error event of a terminal
\* action, else run_navigator resumes after its yield.
StreamAfterStep(r) ==
  /\ pc[r] = "ev_step"
  /\ IF action[r].type = "done"
     THEN /\ pc' = [pc EXCEPT ![r] = "ev_done"]
          /\ Emit(r, Event("done", 0))
     ELSE IF action[r].type = "fail"
     THEN /\ pc' = [pc EXCEPT ![r] = "ev_error"]
          /\ Emit(r, Event("error", 0))
     ELSE /\ ~IsTerminal(action[r])
          /\ pc' = [pc EXCEPT ![r] =
                      IF NeedsBackoff(action[r], success[r]) THEN "backoff"
                      ELSE "head"]
          /\ UNCHANGED events
  /\ KeepLocals
  /\ UNCHANGED <<apiKey, registry, sid, stopSet, browser, step, conversation,
                 results, reply, stopAt>>

\* asyncio.sleep(2) of the backoff returns.
NavBackoff(r) ==
  /\ pc[r] = "backoff"
  /\ pc' = [pc EXCEPT ![r] = "head"]
  /\ KeepLocals
  /\ UNCHANGED <<apiKey, registry, sid, stopSet, browser, step, conversation,
                 results, events, reply, stopAt>>

\* stream() after a done, error or stopped event: it leaves its loop (or its
\* except block) and its `finally` runs; run_navigator is not resumed.
StreamClose(r) ==
  /\ pc[r] \in {"ev_done", "ev_error", "ev_stopped"}
  /\ StreamOver(r, "finished")
  /\ ClearLocals(r)
  /\ UNCHANGED <<apiKey, sid, stopSet, browser, step, conversation, results,
                 events, reply, stopAt>>

Suspended ==
  {"session", "head", "shot", "decide", "exec", "backoff", "ev_step",
   "ev_done", "ev_error", "ev_stopped"}

\* The consumer goes away.  A generator that was never started has no
\* frame to unwind, so its `finally` does not run; a started one is
\* cancelled (or closed) at its suspension point and unwinds through it.
Abandon(r) ==
  /\ IF pc[r] = "created"
     THEN /\ pc' = [pc EXCEPT ![r] = "dropped"]
          /\ UNCHANGED registry
     ELSE /\ pc[r] \in Suspended
          /\ StreamOver(r, "cancelled")
  /\ ClearLocals(r)
  /\ UNCHANGED <<apiKey, sid, stopSet, browser, step, conversation, results,
                 events, reply, stopAt>>

\* Where a run is relative to its iterations: "between" two of them (after
\* a step event and before the next stop check, or before the first check),
\* "inflight" (after the stop check of an iteration and before its result),
\* "ending" (a done, error or stopped event is out), or "over".
Phase(p) ==
  CASE p \in {"created", "session", "head", "ev_step", "backoff"} -> "between"
    [] p \in {"shot", "decide", "exec"} -> "inflight"
    [] p \in {"ev_done", "ev_error", "ev_stopped"} -> "ending"
    [] OTHER -> "over"

\* ------------------------------------------- POST /stop/{id}: stop_session
StopSession(s) ==
  LET e == registry[s]
  IN  /\ IF e = 0
         THEN /\ reply' = 404
              /\ UNCHANGED <<stopSet, stopAt>>
         ELSE /\ reply' = 200
              /\ stopSet' = [stopSet EXCEPT ![e] = TRUE]
              /\ stopAt' =
                   IF stopSet[e] THEN stopAt
                   ELSE [stopAt EXCEPT ![e] =
                           [phase |-> Phase(pc[e]), n |-> Len(results[e]),
                            terminal |-> IsTerminal(action[e])]]
      /\ UNCHANGED <<apiKey, registry, pc, sid, browser, step, conversation,
                     resp, action, success, wheel, results, events>>

\* ------------------------------------------------------------- behaviours
Over == {"finished", "cancelled", "dropped", "rejected"}

\* One step of request r's run, the model answering from the set answers.
RunStep(r, answers) ==
  \/ StreamStart(r)
  \/ \E ok \in BOOLEAN : NavLaunch(r, ok)
  \/ NavLoopHead(r)
  \/ \E ok \in BOOLEAN : TakeScreenshot(r, ok)
  \/ \E rsp \in answers : GetNextAction(r, rsp)
  \/ \E raiseAt \in 0..4 : ExecuteAction(r, raiseAt)
  \/ StreamAfterStep(r)
  \/ NavBackoff(r)
  \/ StreamClose(r)

\* One request, every distinguishable answer of the model, the whole step
\* range.  With a single request the id it runs under is immaterial (the
\* behaviours under a caller's id are those under a generated one, renamed),
\* so the request leaves the id to the server; stop requests name that id or
\* an id nobody runs under.
Next ==
  \/ RunAgent(1, 0)
  \/ RunStep(1, Answers)
  \/ Abandon(1)
  \/ \E s \in ClientIds \cup {Uuid(1)} : StopSession(s)

Spec == Init /\ [][Next]_vars

\* The event loop resumes a task whose await has returned, and the consumer
\* of the stream keeps asking for the next event until it goes away.
SpecLive == Spec /\ WF_vars(RunStep(1, Responses))

\* Concurrent requests: every interleaving of NumRuns requests in which each
\* run begins at most MaxConcSteps iterations.
ConcResponses ==
  { ApiError,
    Response("ok", 1, TRUE, "STOP", <<TextPart({"hello"})>>),
    Response("ok", 1, TRUE, "STOP", <<TextPart({"done"})>>) }

NextConc ==
  \/ \E r \in Runs, req \in {0} \cup ClientIds : RunAgent(r, req)
  \/ \E r \in Runs :
       /\ RunStep(r, ConcResponses)
       /\ pc'[r] = "shot" => step'[r] <= LoopStart + MaxConcSteps
  \/ \E r \in Runs : Abandon(r)
  \/ \E s \in AllIds : StopSession(s)

SpecConc == Init /\ [][NextConc]_vars

\* ================================================================ claims
InProgress == {"created"} \cup Suspended
Executed == {"ev_step", "ev_stopped", "ev_done", "ev_error", "backoff", "head"}

StepEvents(r) == {i \in 1..Len(events[r]) : events[r][i].type = "step"}
HasEvent(r, type) == \E i \in 1..Len(events[r]) : events[r][i].type = type

\* C1 (as claimed): a StopSignal set after step k's StepResult (k >= 1) and
\* before the stop check of iteration k+1 keeps every step event of index
\* above k off the stream, and a "stopped" event follows the last step event
\* once the stream has ended.
C1_StopBetweenStepsEmitsStopped ==
  \A r \in Runs :
    ( /\ pc[r] = "finished"
      /\ stopAt[r].phase = "between"
      /\ stopAt[r].n >= 1
      /\ ~stopAt[r].terminal
      /\ ~HasEvent(r, "error") )
    => /\ \A i \in StepEvents(r) : events[r][i].step <= stopAt[r].n
       /\ \E j \in 1..Len(events[r]) :
            /\ events[r][j].type = "stopped"
            /\ \A i \in StepEvents(r) : i < j

\* C2: the StepResults of a run carry the step indices 1, 2, 3, ... in order.
C2_StepIndicesCountFromOne ==
  \A r \in Runs : \A i \in 1..Len(results[r]) : results[r][i] = i

C2_Witness ==
  \E r \in Runs : Len(results[r]) >= 3 /\ results[r][3] = 3

\* C3: a run never yields more than MAX_STEPS StepResults, and every started
\* run comes to an end, whatever the model answers (the calls returning and
\* the stream being consumed).
C3_TerminatesWithinCeiling ==
  /\ [](\A r \in Runs : Len(results[r]) <= MAX_STEPS)
  /\ (\E r \in Runs : pc[r] \in InProgress)
       ~> (\A r \in Runs : pc[r] \notin InProgress)

C3_Witness ==
  \E r \in Runs :
    /\ pc[r] = "finished"
    /\ Len(results[r]) = MAX_STEPS
    /\ ~stopSet[r]
    /\ ~HasEvent(r, "done") /\ ~HasEvent(r, "error")

\* C4 (as claimed): whatever the model call produces, get_next_action hands
\* an Action to the step loop, and a failed call (an exception, no
\* candidate, no parts) hands it a `fail` Action.
C4_DecisionNeverRaises ==
  \A r \in Runs :
    resp[r].outcome # "none"
    => /\ action[r].type \in ActionTypes
       /\ resp[r].outcome \in {"exception", "no_candidates", "no_parts"}
            => action[r].type = "fail"

\* C5 (as claimed): a run that has ended has no registration of its own left
\* in _stop_events, and the registry is empty once every started run is over.
C5_RegistrationRemovedAtEnd ==
  /\ \A r \in Runs :
       pc[r] \in {"finished", "cancelled", "dropped"} => registry[sid[r]] # r
  /\ (\A r \in Runs : pc[r] \in Over \cup {"idle"})
       => \A s \in AllIds : registry[s] = 0

\* C6 (as claimed): while a run is in progress the registry maps its session
\* id to that run's own StopSignal.
C6_RegistryMapsRunToOwnSignal ==
  \A r \in Runs : pc[r] \in InProgress => registry[sid[r]] = r

\* The completion check of lines 131-138 fires on the answer.
CompletionCheckFires(a) == a.stopFinish /\ a.completionText

\* C7 (as claimed): an answer whose first requested tool has an unrecognized
\* name is decided as `wait`, its execution succeeds, and the step does not
\* end the run.
C7_UnknownToolDegradesToWait ==
  \A r \in Runs :
    resp[r].unknownTool
    => /\ action[r].type = "wait"
       /\ pc[r] \in {"exec", "ev_step", "ev_stopped", "head"}
       /\ pc[r] # "exec" => success[r]

\* C7 (amended): the same, for the answers on which the completion check
\* does not fire first.
C7_UnknownToolWithoutCompletion ==
  \A r \in Runs :
    (resp[r].unknownTool /\ ~CompletionCheckFires(resp[r]))
    => /\ action[r].type = "wait"
       /\ pc[r] \in {"exec", "ev_step", "ev_stopped", "head"}
       /\ pc[r] # "exec" => success[r]

C7_Witness ==
  \E r \in Runs :
    /\ resp[r].unknownTool /\ ~CompletionCheckFires(resp[r])
    /\ pc[r] = "head"
    /\ action[r].type = "wait" /\ success[r]
    /\ Len(results[r]) >= 1

\* C8: a scroll Action with a positive amount a wheels by (0, +a) when its
\* direction is "down" and by (0, -a) when it is "up".
C8_ScrollDeltaSign ==
  \A r \in Runs :
    ( /\ pc[r] \in Executed
      /\ action[r].type = "scroll"
      /\ action[r].direction \in {"down", "up"}
      /\ action[r].amount # <<>> /\ action[r].amount[1] > 0 )
    => /\ success[r] => wheel[r] # <<>>
       /\ wheel[r] # <<>> =>
            wheel[r][1] =
              [dx |-> 0,
               dy |-> IF action[r].direction = "down"
                      THEN <<action[r].amount[1]>>
                      ELSE <<0 - action[r].amount[1]>>]

C8_Witness ==
  \E r \in Runs :
    /\ pc[r] \in Executed
    /\ action[r].type = "scroll" /\ action[r].direction = "up"
    /\ action[r].amount = <<300>>
    /\ success[r]
    /\ wheel[r] = <<[dx |-> 0, dy |-> <<-300>>]>>

\* C9 (as claimed): an answer that reports a blockage gives a StepResult of
\* kind `fail` with success = false, and the run ends at that step.
C9_BlockageFails ==
  \A r \in Runs :
    resp[r].blockage
    => /\ action[r].type = "fail"
       /\ pc[r] \in {"exec", "ev_step", "ev_stopped", "ev_error"}
       /\ pc[r] # "exec" => ~success[r]

\* C9 (amended): the same, for the answers in which no completion language
\* takes precedence: the completion check does not fire, and no text with
\* completion language comes before the first text with failure language.
C9_BlockageWithoutCompletionFails ==
  \A r \in Runs :
    ( /\ resp[r].blockage
      /\ ~CompletionCheckFires(resp[r])
      /\ ~resp[r].completionFirst )
    => /\ action[r].type = "fail"
       /\ pc[r] \in {"exec", "ev_step", "ev_stopped", "ev_error"}
       /\ pc[r] # "exec" => ~success[r]

C9_Witness ==
  \E r \in Runs :
    /\ resp[r].blockage /\ ~CompletionCheckFires(resp[r])
    /\ ~resp[r].completionFirst
    /\ pc[r] = "ev_error"
    /\ action[r].type = "fail" /\ ~success[r]
    /\ Len(results[r]) = 2
    /\ events[r][Len(events[r]) - 1] = Event("step", 2)

\* C10 (as claimed): POST /stop for an id that no run in progress carries
\* answers 404 and changes neither the registry nor any StopSignal; for an
\* id that a run in progress carries it answers 200, every time, and leaves
\* that run's StopSignal set.
C10_StopAnswersByRunState ==
  [][\A s \in AllIds :
       StopSession(s) =>
         IF \E r \in Runs : pc[r] \in InProgress /\ sid[r] = s
         THEN /\ reply' = 200
              /\ \A r \in Runs : (pc[r] \in InProgress /\ sid[r] = s) => stopSet'[r]
         ELSE /\ reply' = 404
              /\ UNCHANGED <<registry, stopSet>>]_vars

\* The step events of a stream, in the order they were yielded.
IsStepEvent(e) == e.type = "step"
RelayedSteps(r) == SelectSeq(events[r], IsStepEvent)

\* C11 (as claimed): every StepResult the step loop yielded is on the stream
\* as exactly one step event, in the same order, whenever a stop arrives.
C11_EveryResultRelayed ==
  \A r \in Runs :
    /\ Len(RelayedSteps(r)) = Len(results[r])
    /\ \A i \in 1..Len(results[r]) : RelayedSteps(r)[i].step = results[r][i]

TerminalEvents == {"done", "error", "stopped"}
Started == Suspended \cup {"finished", "cancelled"}

\* C12: a started stream carries one session event, first; then step events;
\* then at most one of done, error, stopped, and nothing after it.  A stream
\* that was never started carries nothing.
C12_StreamShape ==
  \A r \in Runs :
    LET ev == events[r]
    IN  /\ pc[r] \in Started => (Len(ev) >= 1 /\ ev[1].type = "session")
        /\ pc[r] \notin Started => ev = <<>>
        /\ \A i \in 2..Len(ev) : ev[i].type \in {"step"} \cup TerminalEvents
        /\ \A i \in 1..Len(ev) : ev[i].type \in TerminalEvents => i = Len(ev)

\* An exception raised inside the step loop after a relayed step.
C12_Witness ==
  \E r \in Runs :
    /\ pc[r] = "finished"
    /\ Len(events[r]) = 4
    /\ events[r][1].type = "session"
    /\ events[r][2] = Event("step", 1) /\ events[r][3] = Event("step", 2)
    /\ events[r][4].type = "error"
    /\ Len(results[r]) = 2 /\ step[r] = 3

\* The step loop has yielded a StepResult whose action is done or fail.
TerminalEmitted(r) ==
  /\ IsTerminal(action[r])
  /\ pc[r] \in {"ev_step", "ev_stopped", "ev_done", "ev_error"}

\* C13: once a StepResult of kind done or fail is out, the run only emits
\* its closing event and ends: no screenshot, model call, execution or
\* backoff follows, and no further StepResult; an ended run stays ended.
C13_TerminalActionEndsRun ==
  [][\A r \in Runs :
       /\ TerminalEmitted(r) =>
            /\ pc'[r] \in {pc[r], "ev_done", "ev_error", "finished", "cancelled"}
            /\ results'[r] = results[r]
            /\ step'[r] = step[r]
            /\ conversation'[r] = conversation[r]
            /\ RelayedSteps(r)' = RelayedSteps(r)
       /\ pc[r] \in {"finished", "cancelled"} =>
            /\ pc'[r] = pc[r]
            /\ results'[r] = results[r]
            /\ events'[r] = events[r]]_vars

C13_Witness ==
  \E r \in Runs :
    /\ pc[r] = "finished"
    /\ Len(results[r]) = 2 /\ step[r] = 2
    /\ events[r][Len(events[r])].type = "done"
    /\ events[r][Len(events[r]) - 1] = Event("step", 2)

\* The model call of run r's iteration raises in this step.
CallRaises(r) == pc[r] = "decide" /\ resp'[r].outcome = "exception"

\* C14 (as claimed): when the model call raises, get_next_action returns a
\* fail Action and the transcript as it was before the step's call.
C14_FailedCallLeavesTranscript ==
  [][\A r \in Runs :
       CallRaises(r) =>
         /\ action'[r].type = "fail"
         /\ conversation'[r] = conversation[r]]_vars

\* C14 (amended): when the model call raises, get_next_action returns a fail
\* Action and the transcript as it was before the step's call followed by
\* that step's user turn: one turn more, of role user, and no model turn.
C14_FailedCallKeepsUserTurn ==
  [][\A r \in Runs :
       CallRaises(r) =>
         LET old == conversation[r]
             new == conversation'[r]
         IN  /\ action'[r].type = "fail"
             /\ Len(new) = Len(old) + 1
             /\ SubSeq(new, 1, Len(old)) = old
             /\ new[Len(new)].role = "user"]_vars

C14_Witness ==
  \E r \in Runs :
    /\ pc[r] = "exec" /\ step[r] = 2
    /\ resp[r].outcome = "exception"
    /\ action[r].type = "fail"
    /\ Len(conversation[r]) = 3
    /\ conversation[r][3].role = "user"

\* An Action was returned for the answer (the parse did not raise).
Decided(r) ==
  resp[r].outcome \in {"tool_call", "text_only"} /\ action[r].type \in ActionTypes

\* The reference of the claim: done on a stopping finish with completion
\* language, else the requested tool's kind, else fail on failure language,
\* else wait.
ClaimedKind(a) ==
  IF a.stopFinish /\ a.completionText THEN "done"
  ELSE IF a.toolKind # "none" THEN a.toolKind
  ELSE IF a.blockage THEN "fail"
  ELSE "wait"

\* The same with the text scan deciding by its first text part that carries
\* failure or completion language: fail on failure language, else done.
ScannedKind(a) ==
  IF a.stopFinish /\ a.completionText THEN "done"
  ELSE IF a.toolKind # "none" THEN a.toolKind
  ELSE IF a.completionFirst THEN "done"
  ELSE IF a.blockage THEN "fail"
  ELSE "wait"

\* C15 (as claimed): the kind of the Action _parse_computer_use_response
\* returns is the claim's reference kind, for every answer.
C15_KindMatchesReference ==
  \A r \in Runs : Decided(r) => action[r].type = ClaimedKind(resp[r])

\* C15 (amended): the kind returned is the reference kind in which, with no
\* tool requested, the first text part with failure or completion language
\* decides between fail and done.
C15_KindMatchesScan ==
  \A r \in Runs : Decided(r) => action[r].type = ScannedKind(resp[r])

C15_Witness ==
  \E r \in Runs :
    /\ Decided(r) /\ pc[r] = "exec"
    /\ resp[r].outcome = "text_only"
    /\ ~resp[r].stopFinish /\ resp[r].completionFirst /\ resp[r].blockage
    /\ action[r].type = "done"

\* A browser primitive raised while a non-terminal Action was executed.
ExecutionFailed(r) == ~success[r] /\ ~IsTerminal(action[r])

\* C16: execute_action never raises, so the iteration always yields its
\* StepResult with the Action as decided; after a StepResult whose execution
\* failed on a non-terminal Action the run goes on, through a backoff sleep
\* when the kind is not wait, and the sleep ends at the head of the loop.
C16_ExecutionErrorBacksOff ==
  [][\A r \in Runs :
       /\ (pc[r] = "exec" /\ pc'[r] \notin {"exec", "cancelled"}) =>
            /\ pc'[r] \in {"ev_step", "ev_stopped"}
            /\ Len(results'[r]) = Len(results[r]) + 1
            /\ action'[r] = action[r]
       /\ (pc[r] = "ev_step" /\ ExecutionFailed(r)
             /\ pc'[r] \notin {"ev_step", "cancelled"}) =>
            /\ pc'[r] = IF action[r].type # "wait" THEN "backoff" ELSE "head"
            /\ events'[r] = events[r]
       /\ (pc[r] = "backoff" /\ pc'[r] \notin {"backoff", "cancelled"}) =>
            /\ pc'[r] = "head"
            /\ ExecutionFailed(r) /\ action[r].type # "wait"]_vars

C16_Witness ==
  \E r \in Runs :
    /\ pc[r] = "backoff"
    /\ action[r].type = "click" /\ ~success[r]
    /\ results[r] = <<1>>
    /\ events[r][Len(events[r])] = Event("step", 1)

\* C17: when the loop leaves at the step ceiling (the range is exhausted at
\* the loop head, no stop requested), the stream is over with MAX_STEPS step
\* events, numbered 1..MAX_STEPS, and no done, error or stopped event, and
\* the run's registration is gone.
C17_CeilingEndsSilently ==
  [][\A r \in Runs :
       ( /\ pc[r] = "head" /\ RangeExhausted(step[r]) /\ ~stopSet[r]
         /\ pc'[r] = "finished" )
       => /\ Len(RelayedSteps(r)') = MAX_STEPS
          /\ \A i \in 1..MAX_STEPS : RelayedSteps(r)'[i].step = i
          /\ \A i \in 1..Len(events'[r]) : events'[r][i].type \notin TerminalEvents
          /\ registry'[sid[r]] = 0]_vars

C17_Witness ==
  \E r \in Runs :
    /\ pc[r] = "finished" /\ ~stopSet[r]
    /\ step[r] = MAX_STEPS
    /\ Len(events[r]) = MAX_STEPS + 1
    /\ events[r][MAX_STEPS + 1] = Event("step", MAX_STEPS)
    /\ registry[sid[r]] = 0

\* The wheel delta the claim gives a scroll Action: the amount, 300 when it
\* is absent, upwards (negative) for "up" and downwards otherwise.
ClaimedDelta(a) ==
  LET amt == IF a.amount = <<>> THEN 300 ELSE a.amount[1]
  IN  IF a.direction = "up" THEN 0 - amt ELSE amt

\* C18 (as claimed): a scroll Action whose direction is absent, "down" or
\* "up" and whose amount is absent or positive turns the wheel by the
\* claimed delta, and does so whenever its execution succeeds.
C18_ScrollDefaults ==
  \A r \in Runs :
    ( /\ pc[r] \in Executed
      /\ action[r].type = "scroll"
      /\ action[r].direction \in {"None", "down", "up"}
      /\ (action[r].amount = <<>> \/ action[r].amount[1] > 0) )
    => /\ success[r] => wheel[r] # <<>>
       /\ wheel[r] # <<>> =>
            wheel[r][1] = [dx |-> 0, dy |-> <<ClaimedDelta(action[r])>>]

\* turns is user, model, user, model, ... with the goal in its first turn
\* and in no other.
Alternates(turns) ==
  \A i \in 1..Len(turns) :
    /\ turns[i].role = IF i % 2 = 1 THEN "user" ELSE "model"
    /\ turns[i].goal <=> (i = 1)

\* C19: when iteration k starts (the stop check is passed, the screenshot
\* and the model call are still to come) the transcript holds 2 * (k - 1)
\* turns, alternating from a user turn that alone carries the goal; and a
\* step never removes or reorders turns: the transcript only grows at its end.
C19_TranscriptGrowsByPairs ==
  /\ [](\A r \in Runs :
          pc[r] \in {"shot", "decide"} =>
            /\ Len(conversation[r]) = 2 * (step[r] - 1)
            /\ Alternates(conversation[r]))
  /\ [][\A r \in Runs :
          /\ Len(conversation'[r]) >= Len(conversation[r])
          /\ SubSeq(conversation'[r], 1, Len(conversation[r])) = conversation[r]]_vars

C19_Witness ==
  \E r \in Runs :
    /\ pc[r] = "shot" /\ step[r] = 3
    /\ Len(conversation[r]) = 4
    /\ conversation[r][1].goal /\ ~conversation[r][3].goal
    /\ conversation[r][4].role = "model"

\* Between the stop check of an iteration and the yield of its StepResult.
InFlight == {"shot", "decide", "exec"}

\* C20: once a run's StopSignal is set it stays set; the run enters no
\* screenshot, model call or execution except to finish the iteration that
\* was in flight when the signal was set, so it yields at most that one more
\* StepResult; and no step event is added to its stream.
C20_StopIsFinal ==
  [][\A r \in Runs :
       stopSet[r] =>
         /\ stopSet'[r]
         /\ pc[r] \notin InFlight => pc'[r] \notin InFlight
         /\ pc'[r] = "shot" => pc[r] = "shot"
         /\ Len(results'[r]) <=
              stopAt'[r].n + (IF stopAt'[r].phase = "inflight" THEN 1 ELSE 0)
         /\ RelayedSteps(r)' = RelayedSteps(r)]_vars

C20_Witness ==
  \E r \in Runs :
    /\ pc[r] = "finished" /\ stopSet[r]
    /\ stopAt[r].phase = "inflight" /\ stopAt[r].n = 1
    /\ results[r] = <<1, 2>>
    /\ Len(RelayedSteps(r)) = 1
    /\ events[r][Len(events[r])].type = "stopped"

\* C21 (as claimed): a run that launched a browser and whose stream has
\* ended (at the step ceiling, on a stop seen at the loop head, after a
\* done, error or stopped event, or on an exception inside the loop) has
\* executed browser.close().
C21_BrowserClosedAtEnd ==
  \A r \in Runs :
    (pc[r] = "finished" /\ browser[r] # "none") => browser[r] = "closed"

====
